---- MODULE Spec2Model ----
(***************************************************************************)
(* Model of src/main.py: the proxy-rotating request executor               *)
(* (make_request_with_proxy), the proxy selector (get_random_proxy), the   *)
(* time-bucketed proxy pool (get_cached_proxies / fetch_proxies), the      *)
(* blacklist (BLACKLISTED_PROXIES) and the three routes that use them.     *)
(*                                                                         *)
(* Every inbound request is an asyncio task.  A task gives up control only *)
(* where it awaits (network I/O, and the close of the HTTP client at the   *)
(* end of an `async with` block), so each action below is the synchronous  *)
(* code between two awaits.  The wall clock (the 30-minute bucket index)   *)
(* advances independently of the tasks.                                    *)
(***************************************************************************)
EXTENDS Integers, Sequences, FiniteSets, TLC

(* ------------------------------ bounds -------------------------------- *)
\* Number of inbound requests of a run (each is served by an asyncio task of
\* its own; the startup hook counts as one).
NRequests == 3
\* Largest time-bucket index the clock reaches.
MaxBucket == 1

(* ------------------------- program constants -------------------------- *)
\* max_attempts = 3
max_attempts == 3
\* @lru_cache(maxsize=1)
lru_maxsize == 1

None == "None"
Tasks == 1..NRequests
Proxies == {"p1", "p2", "p3"}

(* -------------------------- proxy-list source ------------------------- *)
\* Bodies the proxy-list source may answer with, already split on '\n'
\* (response.text.split('\n')): a body that ends in a newline yields a last
\* empty line, lines may carry surrounding whitespace.
SourceTexts ==
    { << "" >>,
      << "p1", "" >>,
      << "p1", " p2 ", "  " >>,
      << "p1", "p2", "p3", "" >> }

\* str.strip() on the lines above.
Strip(line) ==
    CASE line = " p2 " -> "p2"
      [] line = "  " -> ""
      [] OTHER -> line

\* Mutant: the blacklist is not consulted when the list is parsed.
ParseProxiesUnfiltered(text, blacklist) ==
    LET stripped == [i \in 1..Len(text) |-> Strip(text[i])]
    IN  SelectSeq(stripped, LAMBDA l : l /= "")

\* proxies = [line.strip() for line in ... if line.strip() and
\*            line.strip() not in BLACKLISTED_PROXIES]
ParseProxies(text, blacklist) ==
    LET stripped == [i \in 1..Len(text) |-> Strip(text[i])]
    IN  SelectSeq(stripped, LAMBDA l : l /= "" /\ l \notin blacklist)

\* What can go wrong inside the try block of fetch_proxies: a transport error
\* of client.get, a status that raise_for_status() rejects, or any other
\* error raised while the body is read and parsed.
FetchFailures == {"transport", "status", "parse"}

\* The exception the try block of fetch_proxies raises for a failure.
FetchRaised(fail) ==
    CASE fail = "transport" -> "TransportError"
      [] fail = "status" -> "HTTPStatusError"
      [] OTHER -> "Exception"

\* Mutant: only the errors of the HTTP library are caught.
FetchExceptHttpxOnly(exc) ==
    IF exc \in {"TransportError", "HTTPStatusError"} THEN "except HTTPError" ELSE None

\* The except clause of fetch_proxies that catches an exception of its try
\* block: `except Exception as e`, which catches them all.
FetchExcept(exc) == "except Exception"

\* How a fetch_proxies call has ended and what it returned: "hit" (the cached
\* list, line 36), "return" (the parsed list, line 53), "except" ([] after a
\* caught exception, line 56) or "raise"; bucket is its cache_timestamp.
NoFetch == [kind |-> None, ret |-> <<>>, bucket |-> -1]

(* ------------------------------ lru cache ----------------------------- *)
\* The lru_cache of get_cached_proxies is a sequence of at most lru_maxsize
\* entries [key, val], least recently used first.  val is the list object
\* the call returned, which fetch_proxies later extends in place.
CacheHas(c, ts) == \E i \in 1..Len(c) : c[i].key = ts

CacheIndex(c, ts) == CHOOSE i \in 1..Len(c) : c[i].key = ts

\* The cache after get_cached_proxies(ts): a hit moves the entry to the
\* most-recent end, a miss runs the body (return []) and stores the new
\* list, evicting the least recently used entry when the cache is full.
get_cached_proxies(c, ts) ==
    IF CacheHas(c, ts)
    THEN LET i == CacheIndex(c, ts)
         IN  SelectSeq([j \in 1..Len(c) |-> IF j = i THEN [key |-> -1, val |-> <<>>] ELSE c[j]],
                       LAMBDA e : e.key /= -1) \o << c[i] >>
    ELSE LET kept == IF Len(c) < lru_maxsize THEN c ELSE Tail(c)
         IN  Append(kept, [key |-> ts, val |-> <<>>])

\* The list get_cached_proxies(ts) returns (the newest entry of the cache
\* after the call).
CachedList(c, ts) == get_cached_proxies(c, ts)[Len(get_cached_proxies(c, ts))].val

\* Mutant: the cache is not cleared.
cache_keep(c) == c

\* get_cached_proxies.cache_clear()
cache_clear(c) == <<>>

\* get_cached_proxies(cache_timestamp).extend(proxies)
CacheExtend(c, ts, proxies) ==
    LET c2 == get_cached_proxies(c, ts)
    IN  [c2 EXCEPT ![Len(c2)].val = @ \o proxies]

(* --------------------------- proxy selector --------------------------- *)
\* available_proxies = [p for p in proxies if p not in BLACKLISTED_PROXIES]
available_proxies(proxies, blacklist) ==
    SelectSeq(proxies, LAMBDA p : p \notin blacklist)

\* Mutant: the blacklist is not consulted.
get_random_proxy_unfiltered(proxies, blacklist) ==
    IF proxies /= <<>>
    THEN {proxies[i] : i \in 1..Len(proxies)}
    ELSE {None}

\* Mutant: the selector waits until a proxy is available instead of
\* returning None.
get_random_proxy_waiting(proxies, blacklist) ==
    LET avail == available_proxies(proxies, blacklist)
    IN  {avail[i] : i \in 1..Len(avail)}

\* The values get_random_proxy may return for the list `proxies` read from
\* the cache: random.choice over the available ones, None when there is none.
get_random_proxy(proxies, blacklist) ==
    LET avail == available_proxies(proxies, blacklist)
    IN  IF avail /= <<>>
        THEN {avail[i] : i \in 1..Len(avail)}
        ELSE {None}

(* ------------------------- request executor --------------------------- *)
\* What one HTTP attempt of make_request_with_proxy can meet.
Outcomes == {"transport", "401", "other_status", "2xx_undecodable", "2xx_ok"}

\* Shapes of a decoded 2xx body, as far as the adapters read them:
\*   profile         {"data": {"user": {"id": ...}}}
\*   timeline_empty  {"data": {"user": {"edge_owner_to_timeline_media": {"edges": []}}}}
\*   timeline_post   the same with one edge carrying taken_at_timestamp
\*   no_data         valid JSON without the key "data"
Bodies == {"profile", "timeline_empty", "timeline_post", "no_data"}

\* The two messages the code builds for a 401 (the first one also names the
\* proxy), and str(e) of a caught exception: a text of the HTTP library,
\* which mentions no "401 Unauthorized".
Msg401Proxy == "Proxy {proxy} returned 401 Unauthorized and has been blacklisted"
Msg401Direct == "401 Unauthorized error without proxy"
MsgException == "str(e)"

\* The exception the try block raises for an outcome (None: no exception).
\* A 401 is handled before raise_for_status() and raises nothing.
Raised(out) ==
    CASE out = "transport" -> "TransportError"
      [] out = "other_status" -> "HTTPStatusError"
      [] out = "2xx_undecodable" -> "JSONDecodeError"
      [] OTHER -> None

\* Mutant: only the errors of the HTTP library are caught.
ExceptClauseHttpxOnly(exc) ==
    CASE exc = "HTTPStatusError" -> "except HTTPStatusError"
      [] exc = "TransportError" -> "except HTTPError"
      [] OTHER -> None

\* The except clause that catches an exception raised in the try block:
\* `except httpx.HTTPStatusError` first, then `except Exception`.
ExceptClause(exc) ==
    IF exc = "HTTPStatusError" THEN "except HTTPStatusError" ELSE "except Exception"

\* Mutant: the status is not checked before the body is returned.
ReturnsAnyStatus(out) == out \in {"2xx_ok", "other_status"}

\* The try block reaches `return response.json()` and the body decodes.
Returns(out) == out = "2xx_ok"

\* The message appended to `errors` for a failed attempt.
ErrorRecorded(out, proxy) ==
    IF out = "401"
    THEN IF proxy /= None
         THEN [text |-> Msg401Proxy, proxy |-> proxy]
         ELSE [text |-> Msg401Direct, proxy |-> None]
    ELSE [text |-> MsgException, proxy |-> None]

\* Mutant: every failure of a proxied attempt blacklists the proxy.
BlacklistOnAnyFailure(blacklist, out, proxy) ==
    IF proxy /= None THEN blacklist \cup {proxy} ELSE blacklist

\* Mutant: the proxy is only logged, not added.
BlacklistNever(blacklist, out, proxy) == blacklist

\* Mutant: the set is assigned instead of added to.
BlacklistReplace(blacklist, out, proxy) ==
    IF out = "401" /\ proxy /= None THEN {proxy} ELSE blacklist

\* BLACKLISTED_PROXIES after an attempt: BLACKLISTED_PROXIES.add(proxy) on a
\* 401 received with a proxy, nothing otherwise.
BlacklistAfter(blacklist, out, proxy) ==
    IF out = "401" /\ proxy /= None THEN blacklist \cup {proxy} ELSE blacklist

\* Mutant: only the message of a 401 received through a proxy counts.
Has401ViaProxy(error) == error.text = Msg401Proxy

\* "401 Unauthorized" in error
Has401Unauthorized(error) == error.text \in {Msg401Proxy, Msg401Direct}

\* Mutant: any() instead of all().
TerminalFailureAny(errors, used_proxies) ==
    IF (\E i \in 1..Len(errors) : Has401Unauthorized(errors[i])) /\ used_proxies /= <<>>
    THEN [status_code |-> 401,
          detail |-> [message |-> "Authentication failed with Instagram API",
                      blacklisted_proxies |-> used_proxies,
                      errors |-> errors]]
    ELSE [status_code |-> 500,
          detail |-> [message |-> "All requests failed after",
                      attempts |-> max_attempts,
                      errors |-> errors]]

\* Mutant: `and used_proxies` is missing.
TerminalFailureNoProxyCheck(errors, used_proxies) ==
    IF \A i \in 1..Len(errors) : Has401Unauthorized(errors[i])
    THEN [status_code |-> 401,
          detail |-> [message |-> "Authentication failed with Instagram API",
                      blacklisted_proxies |-> used_proxies,
                      errors |-> errors]]
    ELSE [status_code |-> 500,
          detail |-> [message |-> "All requests failed after",
                      attempts |-> max_attempts,
                      errors |-> errors]]

\* The HTTPException raised once the attempts are used up: status 401 with a
\* dict (message, blacklisted_proxies, errors) when every error mentions
\* "401 Unauthorized" and a proxy was used, else status 500 with the text
\* f"All requests failed after {max_attempts} attempts: {', '.join(errors)}".
TerminalFailure(errors, used_proxies) ==
    IF (\A i \in 1..Len(errors) : Has401Unauthorized(errors[i])) /\ used_proxies /= <<>>
    THEN [status_code |-> 401,
          detail |-> [message |-> "Authentication failed with Instagram API",
                      blacklisted_proxies |-> used_proxies,
                      errors |-> errors]]
    ELSE [status_code |-> 500,
          detail |-> [message |-> "All requests failed after",
                      attempts |-> max_attempts,
                      errors |-> errors]]

(* ------------------------------ routes -------------------------------- *)
HasData(body) == body /= "no_data"
HasUserId(body) == body = "profile"
HasEdges(body) == body \in {"timeline_empty", "timeline_post"}

\* Details of the answers the routes build themselves.
Text(message) == [message |-> message]

NoResponse == [status |-> 0, detail |-> Text("")]

\* The answer of the routes when the executor call number `call` of the
\* handler has not raised an HTTPException:
\*   escape  an httpx / JSON error leaving the executor: turned into a 500
\*           by `except (httpx.HTTPError, KeyError, json.JSONDecodeError)`.
\*   return  a body: data["data"] (KeyError -> 500); for /last-post the first
\*           body must hold user.id (an uncaught KeyError -> 500 from the
\*           server), the second the edges (KeyError -> 500).
\* Status 0 with "next" stands for get_last_post_date going on to its second
\* executor call.
ReturnResponse(handler, call, exit) ==
    CASE exit.kind = "escape" ->
           [status |-> 500, detail |-> Text("Failed to get data")]
      [] call = 1 /\ ~HasData(exit.body) ->
           [status |-> 500, detail |-> Text("Failed to get user data")]
      [] call = 1 /\ handler = "user_info" ->
           [status |-> 200, detail |-> Text(exit.body)]
      [] call = 1 /\ ~HasUserId(exit.body) ->
           [status |-> 500, detail |-> Text("Internal Server Error")]
      [] call = 1 ->
           [status |-> 0, detail |-> Text("next")]
      [] call = 2 /\ ~HasEdges(exit.body) ->
           [status |-> 500, detail |-> Text("Failed to get post data")]
      [] OTHER ->
           [status |-> 200,
            detail |-> Text(IF exit.body = "timeline_post" THEN "last_post_date"
                            ELSE "No posts found")]

\* Mutant: every failure is answered with status 500.
RouteResponseAll500(handler, call, exit) ==
    IF exit.kind = "raise"
    THEN [status |-> 500, detail |-> exit.exc.detail]
    ELSE ReturnResponse(handler, call, exit)

\* Mutant: the HTTPException is caught and wrapped, its detail lost.
RouteResponseWrapped(handler, call, exit) ==
    IF exit.kind = "raise"
    THEN [status |-> exit.exc.status_code, detail |-> Text("Failed to get user data")]
    ELSE ReturnResponse(handler, call, exit)

\* The HTTP answer of /user/{username} and /last-post/{username} once the
\* executor call number `call` of the handler has ended with `exit`.  An
\* HTTPException of the executor is re-raised by get_user_id (`except
\* HTTPException: raise`) and is not caught by get_last_post_date; FastAPI
\* answers with its status_code and detail.
RouteResponse(handler, call, exit) ==
    IF exit.kind = "raise"
    THEN [status |-> exit.exc.status_code, detail |-> exit.exc.detail]
    ELSE ReturnResponse(handler, call, exit)

(* ------------------------------- state -------------------------------- *)
VARIABLES
    BLACKLISTED_PROXIES,   \* the module-level set
    cache,                 \* the lru_cache of get_cached_proxies
    now,                   \* int(datetime.now().timestamp() / 1800)
    task,                  \* per asyncio task: handler, position and locals
    got401,                \* history: proxies through which a 401 was received
    hist                   \* history of the pool since the last /refresh-proxies

vars == << BLACKLISTED_PROXIES, cache, now, task, got401, hist >>

\* hist.store: the bucket under which the last fetch stored its pool, and
\* whether /refresh-proxies fetched it; hist.read: the bucket and the returned list of
\* the last fetch_proxies call that has returned.  Both start afresh when
\* /refresh-proxies clears the cache.
NoStore == [bucket |-> -1, refresh |-> FALSE]
NoRead == [bucket |-> -1, ret |-> <<>>]
NoHist == [store |-> NoStore, read |-> NoRead]

\* A task whose request has not arrived yet.  attempt, errors, used_proxies, proxy and
\* cache_timestamp are the locals of the source; fetch is how the handler's
\* fetch_proxies call ended (get_user_id drops the value, so it is forgotten
\* at the first selection).  The rest is history of the current executor
\* call: issued counts the GETs sent, bl0 is the blacklist when the GET in
\* flight to the proxy-list source was sent and then the blacklist at the
\* first selection, pools is the set of lists get_random_proxy has read from
\* the cache, exits the ways the call has ended (a return with the outcome
\* of the attempt it returned from).
IdleTask ==
    [handler |-> None, pc |-> "idle", call |-> 0, cache_timestamp |-> -1,
     attempt |-> 0, errors |-> <<>>, used_proxies |-> <<>>, proxy |-> None,
     issued |-> 0, bl0 |-> {}, pools |-> {}, exits |-> <<>>,
     fetch |-> NoFetch, response |-> NoResponse]

Init ==
    /\ BLACKLISTED_PROXIES = {}
    /\ cache = <<>>
    /\ now = 0
    /\ task = [t \in Tasks |-> IdleTask]
    /\ got401 = {}
    /\ hist = NoHist

(* ------------------------------ actions ------------------------------- *)
\* The exits of an executor call.
NoExc == [status_code |-> 0, detail |-> Text("")]
Returned(body, out) == [kind |-> "return", body |-> body, exc |-> NoExc, out |-> out]
RaisedHTTP(exc) == [kind |-> "raise", body |-> None, exc |-> exc, out |-> None]
Escaped(name, out) == [kind |-> "escape", body |-> name, exc |-> NoExc, out |-> out]

\* fetch_proxies() up to its first await, entered by handler h of task t with
\* the cache c: a non-empty cached list is returned at once (then `after`
\* says where the handler goes on), otherwise the GET to the proxy-list
\* source is issued.
BeginFetch(t, h, c, after) ==
    LET c2 == get_cached_proxies(c, now)
        cached_proxies == CachedList(c, now)
        h0 == IF h = "refresh_proxies" THEN NoHist ELSE hist
    IN  /\ cache' = c2
        /\ task' = [task EXCEPT ![t] =
                      [IdleTask EXCEPT
                         !.handler = h,
                         !.cache_timestamp = IF cached_proxies /= <<>> THEN -1 ELSE now,
                         !.call = IF after = "select" THEN 1 ELSE 0,
                         !.bl0 = IF cached_proxies /= <<>> THEN {} ELSE BLACKLISTED_PROXIES,
                         !.fetch = IF cached_proxies /= <<>>
                                   THEN [kind |-> "hit", ret |-> cached_proxies, bucket |-> now]
                                   ELSE NoFetch,
                         !.pc = IF cached_proxies /= <<>> THEN after ELSE "fetch_wait"]]
        /\ hist' = IF cached_proxies /= <<>>
                   THEN [h0 EXCEPT !.read = [bucket |-> now, ret |-> cached_proxies]]
                   ELSE h0
        /\ UNCHANGED << BLACKLISTED_PROXIES, now, got401 >>

\* Request t arrives: requests are numbered in their order of arrival.
Arrives(t) ==
    /\ task[t].pc = "idle"
    /\ \A u \in Tasks : u < t => task[u].pc /= "idle"

\* GET /user/{username}: get_user_id calls fetch_proxies().
user_info(t) ==
    /\ Arrives(t)
    /\ BeginFetch(t, "user_info", cache, "select")

\* GET /last-post/{username}: get_last_post_date calls get_user_id.
last_post(t) ==
    /\ Arrives(t)
    /\ BeginFetch(t, "last_post", cache, "select")

\* GET /refresh-proxies: cache_clear(), then fetch_proxies().
refresh_proxies(t) ==
    /\ Arrives(t)
    /\ BeginFetch(t, "refresh_proxies", cache_clear(cache), "responded")

\* The startup hook: fetch_proxies() in a task of its own, created before
\* any request is served.
startup_event(t) ==
    /\ Arrives(t) /\ t = 1
    /\ BeginFetch(t, "startup_event", cache, "responded")

\* Where a handler goes on once its fetch_proxies call has ended with `exit`:
\* get_user_id goes on to the executor, /refresh-proxies answers with the
\* length of the returned list, the startup task ends.  An exception out of
\* fetch_proxies would be answered with status 500.
AfterFetch(r, exit) ==
    IF exit.kind = "raise"
    THEN [r EXCEPT !.pc = "responded", !.cache_timestamp = -1, !.fetch = exit,
                   !.response = IF r.handler = "startup_event" THEN NoResponse
                                ELSE [status |-> 500,
                                      detail |-> Text("Internal Server Error")]]
    ELSE IF r.handler \in {"user_info", "last_post"}
    THEN [r EXCEPT !.pc = "select", !.cache_timestamp = -1, !.fetch = exit]
    ELSE [r EXCEPT !.pc = "responded", !.cache_timestamp = -1, !.fetch = exit,
                   !.response = IF r.handler = "refresh_proxies"
                                THEN [status |-> 200,
                                      detail |-> [status |-> "success",
                                                  proxy_count |-> Len(exit.ret)]]
                                ELSE NoResponse]

\* The try block of fetch_proxies fails with `fail`: the exception is caught
\* and logged, fetch_proxies returns [] and stores nothing.
FetchFails(t, fail) ==
    /\ task[t].pc = "fetch_wait"
    /\ LET exit == [kind |-> IF FetchExcept(FetchRaised(fail)) /= None
                             THEN "except" ELSE "raise",
                    ret |-> <<>>,
                    bucket |-> task[t].cache_timestamp]
       IN  /\ task' = [task EXCEPT ![t] = AfterFetch(@, exit)]
           /\ hist' = IF exit.kind = "except"
                      THEN [hist EXCEPT !.read = [bucket |-> exit.bucket, ret |-> exit.ret]]
                      ELSE hist
    /\ UNCHANGED << BLACKLISTED_PROXIES, cache, now, got401 >>

\* The GET answers with `text`: parse, filter by the blacklist, clear the
\* cache and store the result under the bucket computed before the await.
FetchSucceeds(t, text) ==
    /\ task[t].pc = "fetch_wait"
    /\ LET proxies == ParseProxies(text, BLACKLISTED_PROXIES)
           exit == [kind |-> "return", ret |-> proxies,
                    bucket |-> task[t].cache_timestamp]
       IN  /\ cache' = CacheExtend(cache_clear(cache), task[t].cache_timestamp, proxies)
           /\ task' = [task EXCEPT ![t] = AfterFetch(@, exit)]
           /\ hist' = [store |-> [bucket |-> exit.bucket,
                                  refresh |-> task[t].handler = "refresh_proxies"],
                       read |-> [bucket |-> exit.bucket, ret |-> proxies]]
    /\ UNCHANGED << BLACKLISTED_PROXIES, now, got401 >>

\* One pass of the loop head of make_request_with_proxy up to the await of
\* client.get: get_random_proxy() reads the cache for the current bucket,
\* the proxy (if any) is appended to used_proxies and the request is sent.
ExecSelect(t) ==
    /\ task[t].pc = "select"
    /\ task[t].attempt < max_attempts
    /\ LET proxies == CachedList(cache, now)
       IN  /\ cache' = get_cached_proxies(cache, now)
           /\ \E p \in get_random_proxy(proxies, BLACKLISTED_PROXIES) :
                task' = [task EXCEPT ![t] =
                           [@ EXCEPT !.proxy = p,
                                     !.used_proxies = IF p /= None THEN Append(@, p) ELSE @,
                                     !.issued = @ + 1,
                                     !.bl0 = IF task[t].issued = 0
                                             THEN BLACKLISTED_PROXIES ELSE @,
                                     !.pools = @ \cup {proxies},
                                     !.fetch = NoFetch,
                                     !.pc = "exec_wait"]]
    /\ UNCHANGED << BLACKLISTED_PROXIES, now, got401, hist >>

\* The handler takes over from the executor call that has just ended (no
\* await lies between the two): it answers, or (in get_last_post_date, after
\* a first body with a user id) starts the second executor call with fresh
\* locals.
HandlerContinue(r) ==
    LET resp == RouteResponse(r.handler, r.call, r.exits[Len(r.exits)])
    IN  IF resp.status = 0
        THEN [IdleTask EXCEPT !.handler = r.handler, !.call = 2, !.pc = "select"]
        ELSE [r EXCEPT !.response = resp, !.pc = "responded"]

\* The attempt in flight ends with outcome `out` (and decoded body `body` on
\* a 2xx): the code from the return of client.get to the loop head, or to
\* the return / raise that ends the call and on to the handler's answer.
ExecResponse(t, out, body) ==
    /\ task[t].pc = "exec_wait"
    /\ LET r == task[t]
           exc == Raised(out)
           errors == Append(r.errors, ErrorRecorded(out, r.proxy))
           attempt == r.attempt + 1
       IN  IF Returns(out)
           THEN /\ task' = [task EXCEPT ![t] =
                              HandlerContinue([r EXCEPT !.exits = Append(@, Returned(body, out))])]
                /\ UNCHANGED BLACKLISTED_PROXIES
           ELSE IF exc /= None /\ ExceptClause(exc) = None
           THEN /\ task' = [task EXCEPT ![t] =
                              HandlerContinue([r EXCEPT !.exits = Append(@, Escaped(exc, out))])]
                /\ UNCHANGED BLACKLISTED_PROXIES
           ELSE /\ BLACKLISTED_PROXIES' = BlacklistAfter(BLACKLISTED_PROXIES, out, r.proxy)
                /\ task' = [task EXCEPT ![t] =
                              IF attempt < max_attempts
                              THEN [r EXCEPT !.errors = errors,
                                             !.attempt = attempt,
                                             !.pc = "select"]
                              ELSE HandlerContinue(
                                     [r EXCEPT
                                        !.errors = errors,
                                        !.attempt = attempt,
                                        !.exits = Append(@, RaisedHTTP(
                                                    TerminalFailure(errors, r.used_proxies)))])]
    /\ got401' = IF out = "401" /\ task[t].proxy /= None
                 THEN got401 \cup {task[t].proxy} ELSE got401
    /\ UNCHANGED << cache, now, hist >>

\* The answer is sent and the task ends.
Finish(t) ==
    /\ task[t].pc = "responded"
    /\ task' = [task EXCEPT ![t] = [IdleTask EXCEPT !.pc = "finished"]]
    /\ UNCHANGED << BLACKLISTED_PROXIES, cache, now, got401, hist >>

\* The wall clock enters the next 30-minute bucket.
Tick ==
    /\ now < MaxBucket
    /\ now' = now + 1
    /\ UNCHANGED << BLACKLISTED_PROXIES, cache, task, got401, hist >>

\* No request other than t is being served.
Alone(t) == \A u \in Tasks \ {t} : task[u].pc \in {"idle", "finished"}

\* The steps of the tasks in T, with the proxy-list source answering one of
\* `texts` and the upstream answering a 2xx with one of `bodies`; when
\* `overlap` is FALSE a request arrives only once the earlier ones are done,
\* when `clock` is FALSE the time bucket changes only after the first
\* request has been answered.
Step(T, texts, bodies, overlap, clock) ==
    \/ \E t \in T : (overlap \/ Alone(t)) /\ user_info(t)
    \/ \E t \in T : (overlap \/ Alone(t)) /\ last_post(t)
    \/ \E t \in T : (overlap \/ Alone(t)) /\ refresh_proxies(t)
    \/ \E t \in T : (overlap \/ Alone(t)) /\ startup_event(t)
    \/ \E t \in T, fail \in FetchFailures : FetchFails(t, fail)
    \/ \E t \in T, text \in texts : FetchSucceeds(t, text)
    \/ \E t \in T : ExecSelect(t)
    \/ \E t \in T, out \in Outcomes, body \in bodies : ExecResponse(t, out, body)
    \/ \E t \in T : Finish(t)
    \/ (clock \/ task[1].pc = "finished") /\ Tick

\* Two overlapping requests over a proxy-list source of two proxies; the time
\* bucket changes only after the first request has been answered, so that the
\* second may go on with a stale pool and the blacklist the two have built.
Next == Step({1, 2}, {text \in SourceTexts : Len(text) = 3}, {"profile"}, TRUE, FALSE)

Spec == Init /\ [][Next]_vars

\* Requests served one after the other, over the whole proxy-list source
\* (three proxies) and every body shape.
NextSolo == Step(Tasks, SourceTexts, Bodies, FALSE, TRUE)

SpecSolo == Init /\ [][NextSolo]_vars

\* Two overlapping requests over a proxy-list source of one proxy, with the
\* scheduling the executor relies on: the event loop runs a coroutine that
\* is ready (the loop head of make_request_with_proxy), and every GET that
\* has been sent ends, with a response or with an error (a timeout of the
\* HTTP client is a transport error).
NextFair == Step({1, 2}, {text \in SourceTexts : Len(text) = 2}, {"profile"}, TRUE, FALSE)

Fairness ==
    \A t \in {1, 2} :
        /\ WF_vars(ExecSelect(t))
        /\ WF_vars(\E out \in Outcomes, body \in Bodies : ExecResponse(t, out, body))

SpecFair == Init /\ [][NextFair]_vars /\ Fairness

(* ------------------------------ claims -------------------------------- *)
\* The executor call of task t has ended, and how.
Ended(t) == task[t].exits /= <<>>
Exit(t) == task[t].exits[1]
Failed(t) == Ended(t) /\ Exit(t).kind = "raise"
Range(seq) == {seq[i] : i \in 1..Len(seq)}

\* C1: whatever the attempts meet, an executor call sends at most 3 GETs and
\* ends in exactly one way, a returned body or one HTTPException (status 401
\* or 500); no error of a single attempt leaves the retry loop.
C1_RetryBound ==
    \A t \in Tasks :
        /\ task[t].issued <= 3
        /\ Len(task[t].exits) <= 1
        /\ Ended(t) => /\ Exit(t).kind \in {"return", "raise"}
                       /\ Exit(t).kind = "return" => Exit(t).body \in Bodies
                       /\ Exit(t).kind = "raise" => Exit(t).exc.status_code \in {401, 500}
        /\ (task[t].pc = "responded" /\ task[t].handler \in {"user_info", "last_post"})
              => Len(task[t].exits) = 1

\* C1 witness: a call that raised its terminal failure after 3 attempts.
C1_Witness ==
    \E t \in Tasks : Failed(t) /\ task[t].issued = 3 /\ Len(task[t].errors) = 3

\* C2: a body is returned only from an attempt that met a decodable 2xx, at
\* that attempt (the GETs sent are the failed attempts plus this one, so a
\* first-attempt success is 1 GET) and nothing is sent afterwards; every other
\* outcome has used up one attempt and recorded one error when the loop is
\* back at its head, and the call raises only with all 3 attempts used.
C2_SuccessExit ==
    \A t \in Tasks :
        /\ (Ended(t) /\ Exit(t).kind = "return")
              => /\ Exit(t).out = "2xx_ok"
                 /\ task[t].issued = task[t].attempt + 1
                 /\ Len(task[t].errors) = task[t].attempt
        /\ Ended(t) => task[t].pc = "responded"
        /\ task[t].pc = "select"
              => /\ task[t].issued = task[t].attempt
                 /\ Len(task[t].errors) = task[t].attempt
                 /\ task[t].attempt < 3
        /\ task[t].pc = "exec_wait" => task[t].issued = task[t].attempt + 1
        /\ Failed(t) => task[t].issued = 3 /\ task[t].attempt = 3

\* C2 witness: a success at the first attempt, 1 GET sent.
C2_Witness ==
    \E t \in Tasks :
        Ended(t) /\ Exit(t).kind = "return" /\ task[t].issued = 1 /\ task[t].attempt = 0

\* C3 as stated: the terminal failure is the 401 one exactly when every
\* recorded error is a 401 received through a proxy and a proxy was used.
C3_AuthIffAllViaProxy ==
    \A t \in Tasks :
        Failed(t) =>
            ( Exit(t).exc.status_code = 401
              <=> /\ \A i \in 1..Len(task[t].errors) : task[t].errors[i].text = Msg401Proxy
                  /\ task[t].used_proxies /= <<>> )

\* C3 amended: the terminal failure is the 401 one (with the proxies used and
\* all the messages) exactly when every recorded error is a 401, received
\* through a proxy or on a direct attempt, and a proxy was used; otherwise it
\* is the 500 one with the attempt count and all the messages.
C3_AuthIffAll401 ==
    \A t \in Tasks :
        Failed(t) =>
            LET errors == task[t].errors
                all401 == \A i \in 1..Len(errors) :
                              errors[i].text \in {Msg401Proxy, Msg401Direct}
                e == Exit(t).exc
            IN  /\ e.status_code = 401 <=> (all401 /\ task[t].used_proxies /= <<>>)
                /\ e.status_code = 401
                      => /\ e.detail.message = "Authentication failed with Instagram API"
                         /\ e.detail.blacklisted_proxies = task[t].used_proxies
                         /\ e.detail.errors = errors
                /\ e.status_code /= 401
                      => /\ e.status_code = 500
                         /\ e.detail.message = "All requests failed after"
                         /\ e.detail.attempts = 3
                         /\ e.detail.errors = errors

\* C3 witness: a 401 failure whose errors include a 401 of a direct attempt.
C3_Witness ==
    \E t \in Tasks :
        /\ Failed(t) /\ Exit(t).exc.status_code = 401
        /\ \E i \in 1..Len(task[t].errors) : task[t].errors[i].text = Msg401Direct

\* C4: three attempts that all met a 401 through a proxy end in the 401
\* failure, which lists the three proxies used; failed attempts that mix a
\* 401 with an error that is no 401 end in the 500 failure.
C4_Classification ==
    \A t \in Tasks :
        Failed(t) =>
            LET errors == task[t].errors
                e == Exit(t).exc
            IN  /\ (\A i \in 1..Len(errors) : errors[i].text = Msg401Proxy)
                      => /\ e.status_code = 401
                         /\ Len(e.detail.blacklisted_proxies) = 3
                         /\ \A i \in 1..3 :
                               e.detail.blacklisted_proxies[i] = errors[i].proxy
                /\ ( /\ \E i \in 1..Len(errors) :
                           errors[i].text \in {Msg401Proxy, Msg401Direct}
                     /\ \E i \in 1..Len(errors) : errors[i].text = MsgException )
                      => e.status_code = 500

\* C4 witness: a 401 failure after three 401s through three proxies.
C4_Witness ==
    \E t \in Tasks :
        /\ Failed(t) /\ Exit(t).exc.status_code = 401
        /\ \A i \in 1..3 : task[t].errors[i].text = Msg401Proxy
        /\ Cardinality(Range(Exit(t).exc.detail.blacklisted_proxies)) = 3

\* C5: the blacklist is exactly the set of proxies through which some attempt
\* has received a 401, in every state of every interleaving of two requests.
C5_BlacklistIs401s == BLACKLISTED_PROXIES = got401

\* C5 witness: two requests in flight have each blacklisted another proxy.
C5_Witness ==
    /\ BLACKLISTED_PROXIES = {"p1", "p2"}
    /\ task[1].pc \in {"select", "exec_wait"} /\ task[2].pc \in {"select", "exec_wait"}
    /\ \E i \in 1..Len(task[1].errors), j \in 1..Len(task[2].errors) :
          /\ task[1].errors[i].text = Msg401Proxy
          /\ task[2].errors[j].text = Msg401Proxy
          /\ task[1].errors[i].proxy /= task[2].errors[j].proxy

\* C6: each selection, made over the list P that the cache holds for the
\* current bucket and the blacklist B of that moment, returns no member of B,
\* returns None exactly when P \ B is empty, and else a member of P \ B.
C6_SelectorExclusion ==
    [][ \A t \in Tasks :
          (task[t].pc = "select" /\ task'[t].pc = "exec_wait") =>
              LET P == Range(CachedList(cache, now))
                  B == BLACKLISTED_PROXIES
                  ret == task'[t].proxy
              IN  /\ ret \notin B
                  /\ ret = None <=> P \ B = {}
                  /\ ret /= None => ret \in P \ B ]_vars

\* C6 witness: a direct attempt chosen while the pool of the current bucket
\* holds proxies, all of them blacklisted.
C6_Witness ==
    \E t \in Tasks :
        /\ task[t].pc = "exec_wait" /\ task[t].proxy = None
        /\ CacheHas(cache, now) /\ CachedList(cache, now) /= <<>>
        /\ Range(CachedList(cache, now)) \subseteq BLACKLISTED_PROXIES

C8_FailureSurfaced ==
    \A t \in Tasks :
        (Failed(t) /\ task[t].pc = "responded") =>
            LET e == Exit(t).exc
                r == task[t].response
            IN  /\ r.detail = e.detail
                /\ e.detail.errors = task[t].errors
                /\ e.status_code = 401
                      => /\ r.status = 401
                         /\ e.detail.blacklisted_proxies = task[t].used_proxies
                /\ e.status_code = 500 => r.status = 500

\* C8 witness: /last-post answers 401 after its second executor call failed
\* with 401s only.
C8_Witness ==
    \E t \in Tasks :
        /\ Failed(t) /\ task[t].pc = "responded"
        /\ task[t].handler = "last_post" /\ task[t].call = 2
        /\ task[t].response.status = 401

\* C9 as stated: every terminal failure of the executor is answered with 500.
C9_AlwaysStatus500 ==
    \A t \in Tasks :
        (Failed(t) /\ task[t].pc = "responded") => task[t].response.status = 500

\* C9 amended: a terminal failure of the executor is answered with status 500,
\* except the authentication failure, which is answered with status 401.
C9_StatusOfFailure ==
    \A t \in Tasks :
        (Failed(t) /\ task[t].pc = "responded") =>
            task[t].response.status =
                IF Exit(t).exc.detail.message = "Authentication failed with Instagram API"
                THEN 401 ELSE 500

\* C9 witness: /user answers 500 after a failure with an error that is no 401.
C9_Witness ==
    \E t \in Tasks :
        /\ Failed(t) /\ task[t].pc = "responded" /\ task[t].handler = "user_info"
        /\ task[t].response.status = 500
        /\ \E i \in 1..3 : task[t].errors[i].text = MsgException

\* The executor call of task t read the pool << p >> at every selection, p
\* was not blacklisted when the call began, and every attempt met a 401.
OnlyProxyAlways401(t, p) ==
    /\ Failed(t)
    /\ task[t].pools = { << p >> }
    /\ p \notin task[t].bl0
    /\ \A i \in 1..Len(task[t].errors) :
          task[t].errors[i].text \in {Msg401Proxy, Msg401Direct}

\* C10: with a pool of the single proxy p, not blacklisted, and a 401 at every
\* attempt, the call uses its 3 attempts, p is blacklisted afterwards and the
\* failure is the 401 one, naming only p (three times, or once).
C10_SingleProxyScenario ==
    \A t \in Tasks, p \in Proxies :
        OnlyProxyAlways401(t, p) =>
            /\ task[t].issued = 3
            /\ p \in BLACKLISTED_PROXIES
            /\ Exit(t).exc.status_code = 401
            /\ Exit(t).exc.detail.blacklisted_proxies \in { << p, p, p >>, << p >> }

\* C10 witness: the scenario has happened; p is listed once, the second and
\* third attempt having been direct.
C10_Witness ==
    \E t \in Tasks :
        /\ OnlyProxyAlways401(t, "p1")
        /\ Exit(t).exc.detail.blacklisted_proxies = << "p1" >>
        /\ task[t].errors[2].text = Msg401Direct

\* C11: an executor call that has read an empty pool at every selection
\* sends every attempt without a proxy; if it fails it has sent 3 direct
\* GETs and its failure is the 500 one, and no call that used no proxy ever
\* ends in the 401 failure, whatever its attempts met.
C11_EmptyPoolDirect ==
    \A t \in Tasks :
        /\ (task[t].pools = { <<>> })
              => /\ task[t].used_proxies = <<>>
                 /\ task[t].pc = "exec_wait" => task[t].proxy = None
                 /\ \A i \in 1..Len(task[t].errors) : task[t].errors[i].proxy = None
                 /\ Failed(t) => /\ task[t].issued = 3
                                 /\ Exit(t).exc.status_code = 500
                                 /\ Exit(t).exc.detail.message = "All requests failed after"
        /\ (Failed(t) /\ task[t].used_proxies = <<>>) => Exit(t).exc.status_code /= 401

\* C11 witness: the proxy-list fetch failed, the pool stayed empty and three
\* direct attempts met a transport error each.
C11_Witness ==
    \E t \in Tasks :
        /\ Failed(t) /\ task[t].pools = { <<>> } /\ task[t].issued = 3
        /\ \A i \in 1..3 : task[t].errors[i] = [text |-> MsgException, proxy |-> None]
        /\ Exit(t).exc.status_code = 500

\* Task t sends the GET to the proxy-list source in this step, on behalf of a
\* handler other than /refresh-proxies (a cache miss of fetch_proxies).
GetSent(t) ==
    /\ task[t].pc = "idle" /\ task'[t].pc = "fetch_wait"
    /\ task'[t].handler /= "refresh_proxies"

\* The fetch_proxies call of task t returns in this step.
ReadReturns(t) ==
    /\ task[t].fetch.kind = None
    /\ task'[t].fetch.kind \in {"hit", "return", "except"}

\* C12: with requests served one after the other, once a fetch has stored a
\* pool (empty or not) for the current bucket and no /refresh-proxies has
\* come since, no fetch_proxies call sends a GET to the proxy-list source in
\* that bucket.
C12_OneFetchPerBucket ==
    [][ \A t \in Tasks : GetSent(t) => hist.store.bucket /= now ]_vars

\* C13: a fetch_proxies call returns the same list as the fetch_proxies call
\* that returned before it, when both were made with the same bucket value
\* and no /refresh-proxies has come between them.
C13_SameBucketSameList ==
    [][ \A t \in Tasks :
          (ReadReturns(t) /\ hist.read.bucket = task'[t].fetch.bucket)
              => task'[t].fetch.ret = hist.read.ret ]_vars

\* C14: /refresh-proxies empties the cache at once and sends a GET whatever
\* the bucket, and once its fetch has stored a pool no fetch_proxies call
\* sends another GET in that bucket.
C14_RefreshThenOneFetch ==
    [][ \A t \in Tasks :
          /\ (task[t].pc = "idle" /\ task'[t].handler = "refresh_proxies")
                => /\ task'[t].pc = "fetch_wait"
                   /\ \A i \in 1..Len(cache') : cache'[i].val = <<>>
          /\ GetSent(t) => ~(hist.store.refresh /\ hist.store.bucket = now) ]_vars

\* C15: a fetch_proxies call that has sent its GET ends by returning, never
\* by raising; when its try block failed (transport error, rejected status,
\* error while parsing) it returns the empty list and stores nothing, the
\* handler goes on (get_user_id to the executor, /refresh-proxies to its
\* answer), and the blacklist is the same before and after.
C15_FetchNeverRaises ==
    [][ \A t \in Tasks :
          (task[t].pc = "fetch_wait" /\ task'[t].pc /= "fetch_wait") =>
              /\ task'[t].fetch.kind \in {"return", "except"}
              /\ BLACKLISTED_PROXIES' = BLACKLISTED_PROXIES
              /\ task'[t].fetch.kind = "except"
                    => /\ task'[t].fetch.ret = <<>>
                       /\ cache' = cache
                       /\ task'[t].handler \in {"user_info", "last_post"}
                             => task'[t].pc = "select"
                       /\ task'[t].handler = "refresh_proxies"
                             => /\ task'[t].response.status = 200
                                /\ task'[t].response.detail.proxy_count = 0 ]_vars

\* C15 witness: the fetch of a /user request has failed while proxies were
\* blacklisted; the request goes on to the executor with an empty pool.
C15_Witness ==
    \E t \in Tasks :
        /\ task[t].handler = "user_info" /\ task[t].pc = "select"
        /\ task[t].fetch.kind = "except" /\ task[t].fetch.ret = <<>>
        /\ BLACKLISTED_PROXIES /= {}
        /\ CachedList(cache, now) = <<>>

\* The proxies of the 401-via-proxy errors recorded in `errors` are pairwise
\* distinct.
Distinct401Proxies(errors) ==
    \A i, j \in 1..Len(errors) :
        (i < j /\ errors[i].text = Msg401Proxy /\ errors[j].text = Msg401Proxy)
            => errors[i].proxy /= errors[j].proxy

\* C16: a selection never returns a proxy through which a 401 has been
\* received before, be it by the same executor call or by a request running
\* at the same time; so the proxies that met a 401 within one call are
\* pairwise distinct.
C16_NoReselectAfter401 ==
    [][ /\ \A t \in Tasks :
             (task[t].pc = "select" /\ task'[t].pc = "exec_wait")
                 => task'[t].proxy \notin got401
        /\ \A t \in Tasks : Distinct401Proxies(task'[t].errors) ]_vars

\* C16 witness: while the first request is still running after a 401 through
\* p1, the second request has begun with p1 blacklisted, has read a pool
\* that holds p1 and has been given p2.
C16_Witness ==
    /\ task[1].pc \in {"select", "exec_wait"}
    /\ \E i \in 1..Len(task[1].errors) :
          task[1].errors[i] = [text |-> Msg401Proxy, proxy |-> "p1"]
    /\ task[2].pc = "exec_wait" /\ task[2].proxy = "p2"
    /\ "p1" \in task[2].bl0
    /\ << "p1", "p2" >> \in task[2].pools

\* C17: when an executor call makes its first selection, a pool has been
\* fetched for the current bucket since the last /refresh-proxies, or
\* fetch_proxies has been called on the way to this call; this holds for the
\* second executor call of get_last_post_date too.
C17_ExecutorRefreshesPool ==
    [][ \A t \in Tasks :
          (task[t].pc = "select" /\ task[t].issued = 0 /\ task'[t].pc = "exec_wait")
              => \/ hist.store.bucket = now
                 \/ task[t].fetch.kind \in {"hit", "return", "except"} ]_vars

\* Task t stores the pool it has fetched in this step (lines 46-53).
PoolStored(t) ==
    /\ task[t].pc = "fetch_wait"
    /\ task'[t].fetch.kind = "return"

\* C18: under every interleaving of fetches, refreshes and selections the
\* cache holds at most one list, and after each step that list is empty, or
\* the list it was before the step, or exactly the list that the fetch
\* ending in this step has parsed and returned: never a longer list put
\* together from two fetches.  A selection reads the list between two steps,
\* so it sees one of these.
C18_PoolReplacedWholesale ==
    [][ /\ Len(cache') <= lru_maxsize
        /\ \A i \in 1..Len(cache') :
              \/ cache'[i].val = <<>>
              \/ \E j \in 1..Len(cache) : cache[j].val = cache'[i].val
              \/ \E t \in Tasks : PoolStored(t) /\ cache'[i].val = task'[t].fetch.ret ]_vars

\* C18 witness: a /user request and a /refresh-proxies call have fetched at
\* the same time and both have stored; the pool is the output of one fetch.
C18_Witness ==
    /\ task[1].fetch.kind = "return" /\ task[2].fetch.kind = "return"
    /\ {task[1].handler, task[2].handler} = {"user_info", "refresh_proxies"}
    /\ Len(cache) = 1 /\ cache[1].val = << "p1", "p2" >>

\* C19: the pool a fetch stores, and the list it returns, hold no proxy that
\* is blacklisted at the moment of the store, whenever the proxy was
\* blacklisted (before the GET was sent or while it was in flight).
C19_StoredPoolFiltered ==
    [][ \A t \in Tasks :
          PoolStored(t) =>
              /\ Range(task'[t].fetch.ret) \cap BLACKLISTED_PROXIES' = {}
              /\ \A i \in 1..Len(cache') :
                    Range(cache'[i].val) \cap BLACKLISTED_PROXIES' = {} ]_vars

\* C19 witness: p1 was blacklisted by the other request while the GET of
\* this fetch was in flight, and the fetch has stored the pool without p1.
C19_Witness ==
    \E t \in Tasks :
        /\ task[t].fetch.kind = "return" /\ task[t].fetch.ret = << "p2" >>
        /\ "p1" \in BLACKLISTED_PROXIES \ task[t].bl0
        /\ Len(cache) = 1 /\ cache[1].val = << "p2" >>

\* Task t is inside its executor call number c.
InCall(t, c) == task[t].call = c /\ task[t].pc \in {"select", "exec_wait"}

\* The executor call number c of task t has ended by a return or by its one
\* HTTPException (after a first call that returned, get_last_post_date is in
\* its second call or beyond).
CallEnded(t, c) ==
    \/ task[t].call = c /\ Ended(t) /\ Exit(t).kind \in {"return", "raise"}
    \/ c = 1 /\ task[t].call = 2

\* C20: provided every GET sent ends, every executor call ends, and it ends
\* by returning a body or raising its terminal failure, also while another
\* request, a fetch or a refresh is running: a call is left only through
\* its return or its raise, and (a run has finitely many requests) from
\* some moment on no call is in progress any more.
C20_ExecutorTerminates ==
    /\ [][ \A t \in Tasks : \A c \in {1, 2} :
             (InCall(t, c) /\ ~InCall(t, c)') => CallEnded(t, c)' ]_vars
    /\ <>[](\A t \in Tasks : \A c \in {1, 2} : ~InCall(t, c))

\* C20 witness: an executor call has ended in its terminal failure after 3
\* attempts while a /refresh-proxies call had its fetch in flight.
C20_Witness ==
    /\ Failed(1) /\ task[1].issued = 3
    /\ task[2].handler = "refresh_proxies" /\ task[2].pc = "fetch_wait"

====
